---- MODULE Spec2Model ----
(***************************************************************************)
(* Model of the shared backend package: the database connection manager    *)
(* (shared/database/connection.py), its request-scoped session dependency  *)
(* and the generic repository (shared/database/repository.py).             *)
(***************************************************************************)
EXTENDS Integers, Sequences, FiniteSets, TLC

(***************************************************************************)
(* Bounds of the model.                                                    *)
(***************************************************************************)
\* engines create_async_engine may hand out in one run
MaxEngines == 2
\* sessions the session factory may hand out in one run
MaxSessions == 2
\* request dependency generators alive at the same time
MaxRequests == 2
\* records one run may create
MaxIds == 2
\* largest limit and offset a get_all call passes
MaxPage == 3
\* pieces an Authorization header is made of
MaxHeaderLen == 4
\* backend clients boto3 may hand out in one run
MaxClients == 2
\* SharedInfrastructureConfig instances one run may construct
MaxConfigs == 3

None == 0
NoUrl == "NoUrl"
Urls == {"url_a"}
EngineIds == 1..MaxEngines
SessionIds == 1..MaxSessions
Requests == 1..MaxRequests

VARIABLES
  \* DatabaseConnection fields (connection.py 27-30)
  engine, session_factory, database_url,
  \* environment of the manager: engines handed out, successful dispose calls
  enginesCreated, disposeCount,
  \* sessions handed out by the factory and the ones still open
  sessionsCreated, openSessions,
  \* history: where the manager's lifecycle stands, and the last call made
  lifecycle, lastCall,
  \* get_session request dependency generators (connection.py 217-227)
  genPc, genSession,
  \* BaseRepository binding (repository.py 11-13) and the table it works on
  session, model_class, store, nextId,
  \* history: deletes that returned true per id, and the last repository call
  trueDeletes, lastOp,
  \* os.environ as auth/api_keys.py reads it, and the last API-key call made
  \* under it
  environ, lastAuth,
  \* history: the last get_token_from_request call
  lastToken,
  \* JWT_SECRET and JWT_ALGORITHM as shared/auth/token_verifier.py reads them,
  \* and the last verify_token call made under them
  jwt_environ, lastVerify,
  \* one S3Client: whether it was constructed, its _client field, the backend
  \* clients made for it and made in all, and the last call on it
  s3_config, s3_client, s3_made, s3_ids, lastS3,
  \* _global_config of config/base_config.py, the configuration instances
  \* that exist with their field, the ones ever installed, and the last call
  global_config, cfg_fields, cfg_installed, lastCfg,
  \* ServiceDatabase.lifespan: where the context manager stands, its last step
  life_pc, lastLife

connVars == <<engine, session_factory, database_url, enginesCreated, disposeCount,
              sessionsCreated, openSessions, lifecycle, lastCall, genPc, genSession>>

repoVars == <<session, model_class, store, nextId, trueDeletes, lastOp>>

keyVars == <<environ, lastAuth>>

tokenVars == <<lastToken>>

jwtVars == <<jwt_environ, lastVerify>>

\* the state of the components added after the token extraction
s3Vars == <<s3_config, s3_client, s3_made, s3_ids, lastS3>>

cfgVars == <<global_config, cfg_fields, cfg_installed, lastCfg>>

lifeVars == <<life_pc, lastLife>>

extVars == <<jwtVars, s3Vars, cfgVars, lifeVars>>

vars == <<connVars, repoVars, keyVars, tokenVars, extVars>>

Fields == [engine |-> engine, session_factory |-> session_factory,
           database_url |-> database_url]

(***************************************************************************)
(* DatabaseConnection.__init__                                             *)
(***************************************************************************)
InitConn ==
  /\ engine = None
  /\ session_factory = None
  /\ database_url = NoUrl
  /\ enginesCreated = 0
  /\ disposeCount = [e \in EngineIds |-> 0]
  /\ sessionsCreated = 0
  /\ openSessions = {}
  /\ lifecycle = "never"
  /\ lastCall = [op |-> "none", result |-> "none", env |-> "none",
                 pre |-> [engine |-> None, session_factory |-> None,
                          database_url |-> NoUrl],
                 at |-> "never", disposeCalls |-> 0, session |-> None,
                 preSessions |-> 0]
  /\ genPc = [r \in Requests |-> "new"]
  /\ genSession = [r \in Requests |-> None]

(***************************************************************************)
(* DatabaseConnection.connect: the outcomes the environment can produce.   *)
(*   engine_error        create_async_engine raises (line 51)              *)
(*   probe_error         the SELECT 1 round trip raises (lines 76-81)      *)
(*   session_test_error  the session test raises (lines 84-104)            *)
(*   ok                  every step succeeds                               *)
(***************************************************************************)
ConnectOutcomes == {"engine_error", "probe_error", "session_test_error", "ok"}

ConnectResult(o) == IF o = "ok" THEN "ok" ELSE "raise"

\* mutant: a connected manager keeps the engine it has
EngineKeptIfConnected(eng, o, new) ==
  IF o = "engine_error" \/ eng # None THEN eng ELSE new

\* line 51: the assignment happens only when create_async_engine returns
EngineAfterConnect(eng, o, new) == IF o = "engine_error" THEN eng ELSE new

\* line 67: reached only when the engine was created; nothing undoes it
FactoryAfterConnect(sf, o, new) == IF o = "engine_error" THEN sf ELSE new

LifecycleAfterConnect(o) == IF o = "ok" THEN "connected" ELSE "connect_raised"

\* what the call does to the manager and its environment
ConnectFields(url, o) ==
  /\ o = "engine_error" \/ enginesCreated < MaxEngines
  /\ LET new == enginesCreated + 1 IN
       /\ database_url' = url
       /\ engine' = EngineAfterConnect(engine, o, new)
       /\ session_factory' = FactoryAfterConnect(session_factory, o, new)
       /\ enginesCreated' = IF o = "engine_error" THEN enginesCreated ELSE new
  /\ lifecycle' = LifecycleAfterConnect(o)
  /\ lastCall' = [op |-> "connect", result |-> ConnectResult(o), env |-> o,
                  pre |-> Fields, at |-> lifecycle, disposeCalls |-> 0,
                  session |-> None, preSessions |-> sessionsCreated]
  /\ UNCHANGED <<disposeCount, sessionsCreated, openSessions, genPc, genSession>>

Connect(url, o) ==
  /\ ConnectFields(url, o)
  /\ UNCHANGED <<repoVars, keyVars, tokenVars, extVars>>

(***************************************************************************)
(* DatabaseConnection.disconnect (lines 117-136).  engine.dispose() either *)
(* returns or raises; the three fields are cleared after it returned.      *)
(***************************************************************************)
DisposeOutcomes == {"ok", "dispose_error"}

\* line 122: dispose is awaited only for a non-null engine
DisconnectDisposes(eng) == eng # None

\* lines 126-128 are skipped when dispose raised
DisconnectRaises(eng, o) == DisconnectDisposes(eng) /\ o = "dispose_error"

\* mutant: the engine handle is not cleared
EngineKeptAfterDisconnect(eng, o) == eng

EngineAfterDisconnect(eng, o) == IF DisconnectRaises(eng, o) THEN eng ELSE None

FactoryAfterDisconnect(eng, sf, o) == IF DisconnectRaises(eng, o) THEN sf ELSE None

UrlAfterDisconnect(eng, url, o) == IF DisconnectRaises(eng, o) THEN url ELSE NoUrl

LifecycleAfterDisconnect(lc, raised) ==
  IF raised \/ lc = "never" THEN lc ELSE "disconnected"

\* what the call does to the manager and its environment
DisconnectFields(o) ==
  /\ engine = None => o = "ok"
  /\ LET raised == DisconnectRaises(engine, o)
         disposed == DisconnectDisposes(engine) /\ ~raised
     IN
       /\ engine' = EngineAfterDisconnect(engine, o)
       /\ session_factory' = FactoryAfterDisconnect(engine, session_factory, o)
       /\ database_url' = UrlAfterDisconnect(engine, database_url, o)
       /\ disposeCount' = IF disposed
                          THEN [disposeCount EXCEPT ![engine] = @ + 1]
                          ELSE disposeCount
       /\ lifecycle' = LifecycleAfterDisconnect(lifecycle, raised)
       /\ lastCall' = [op |-> "disconnect",
                       result |-> IF raised THEN "raise" ELSE "ok",
                       env |-> o, pre |-> Fields, at |-> lifecycle,
                       disposeCalls |-> IF DisconnectDisposes(engine) THEN 1 ELSE 0,
                       session |-> None, preSessions |-> sessionsCreated]
  /\ UNCHANGED <<enginesCreated, sessionsCreated, openSessions, genPc, genSession>>

Disconnect(o) ==
  /\ DisconnectFields(o)
  /\ UNCHANGED <<repoVars, keyVars, tokenVars, extVars>>

(***************************************************************************)
(* DatabaseConnection.get_session (lines 138-154).                         *)
(***************************************************************************)
SessionOutcomes == {"ok", "factory_error"}

\* mutant: the guard is missing
GetSessionNeverRaises(sf) == FALSE

\* line 140: `if not self.session_factory`
GetSessionRaises(sf) == sf = None

GetSession(o) ==
  /\ UNCHANGED <<repoVars, keyVars, tokenVars, extVars>>
  /\ GetSessionRaises(session_factory) => o = "ok"
  /\ LET refused == GetSessionRaises(session_factory)
         made == ~refused /\ o = "ok"
         new == sessionsCreated + 1
     IN
       /\ made => sessionsCreated < MaxSessions
       /\ sessionsCreated' = IF made THEN new ELSE sessionsCreated
       /\ openSessions' = IF made THEN openSessions \cup {new} ELSE openSessions
       /\ lastCall' = [op |-> "get_session",
                       result |-> IF refused THEN "not_established"
                                  ELSE IF made THEN "session" ELSE "raise",
                       env |-> o, pre |-> Fields, at |-> lifecycle,
                       disposeCalls |-> 0,
                       session |-> IF made THEN new ELSE None,
                       preSessions |-> sessionsCreated]
  /\ UNCHANGED <<engine, session_factory, database_url, enginesCreated,
                 disposeCount, lifecycle, genPc, genSession>>

(***************************************************************************)
(* DatabaseConnection.check_connection (lines 188-204).  The probe round   *)
(* trip (engine.begin and SELECT 1) either succeeds or raises.             *)
(***************************************************************************)
ProbeOutcomes == {"ok", "error"}

\* mutant: the probe error is not caught
CheckConnectionPropagates(eng, probe) ==
  IF eng = None THEN "false"
  ELSE IF probe = "ok" THEN "true" ELSE "raise"

\* lines 191-193 return False; 195-198 return True; 200-204 catch and return False
CheckConnectionResult(eng, probe) ==
  IF eng = None THEN "false"
  ELSE IF probe = "ok" THEN "true" ELSE "false"

CheckConnection(probe) ==
  /\ UNCHANGED <<repoVars, keyVars, tokenVars, extVars>>
  /\ lastCall' = [op |-> "check_connection",
                  result |-> CheckConnectionResult(engine, probe),
                  env |-> IF engine = None THEN "none" ELSE probe,
                  pre |-> Fields, at |-> lifecycle, disposeCalls |-> 0,
                  session |-> None, preSessions |-> sessionsCreated]
  /\ UNCHANGED <<engine, session_factory, database_url, enginesCreated,
                 disposeCount, sessionsCreated, openSessions, lifecycle,
                 genPc, genSession>>

(***************************************************************************)
(* get_session, the request dependency (lines 217-227): an async generator *)
(* per request.  Its first advance checks the factory, opens a session in  *)
(* an `async with` block and yields it; the generator then ends by being   *)
(* resumed (the handler returned), by an exception thrown in at the yield, *)
(* or by being closed (teardown, cancellation).                            *)
(***************************************************************************)
GenExits == {"resume", "throw", "close"}

GenTerminal == {"done", "raised", "closed", "failed"}

\* lines 219-220
DependencyRaises(sf) == sf = None

\* mutant: the session is closed after the yield only when the handler returns
SessionReleasedOnResumeOnly(how) == how = "resume"

\* line 222: every way out of the `async with` block runs the session's exit
SessionReleasedOnExit(how) == how \in GenExits

GenPcAfterExit(how) ==
  CASE how = "resume" -> "done"
    [] how = "throw" -> "raised"
    [] how = "close" -> "closed"

GenStart(r) ==
  /\ UNCHANGED <<repoVars, keyVars, tokenVars, extVars>>
  /\ genPc[r] = "new"
  /\ LET refused == DependencyRaises(session_factory)
         new == sessionsCreated + 1
     IN
       /\ ~refused => sessionsCreated < MaxSessions
       /\ sessionsCreated' = IF refused THEN sessionsCreated ELSE new
       /\ openSessions' = IF refused THEN openSessions ELSE openSessions \cup {new}
       /\ genPc' = [genPc EXCEPT ![r] = IF refused THEN "failed" ELSE "yielded"]
       /\ genSession' = [genSession EXCEPT ![r] = IF refused THEN None ELSE new]
       /\ lastCall' = [op |-> "dependency",
                       result |-> IF refused THEN "not_established" ELSE "session",
                       env |-> "ok", pre |-> Fields, at |-> lifecycle,
                       disposeCalls |-> 0,
                       session |-> IF refused THEN None ELSE new,
                       preSessions |-> sessionsCreated]
  /\ UNCHANGED <<engine, session_factory, database_url, enginesCreated,
                 disposeCount, lifecycle>>

GenExit(r, how) ==
  /\ UNCHANGED <<repoVars, keyVars, tokenVars, extVars>>
  /\ genPc[r] = "yielded"
  /\ genPc' = [genPc EXCEPT ![r] = GenPcAfterExit(how)]
  /\ openSessions' = IF SessionReleasedOnExit(how)
                     THEN openSessions \ {genSession[r]}
                     ELSE openSessions
  /\ UNCHANGED <<engine, session_factory, database_url, enginesCreated,
                 disposeCount, sessionsCreated, lifecycle, lastCall, genSession>>

\* the next request calls get_session() again: a new generator object
GenNew(r) ==
  /\ UNCHANGED <<repoVars, keyVars, tokenVars, extVars>>
  /\ genPc[r] \in GenTerminal
  /\ genPc' = [genPc EXCEPT ![r] = "new"]
  /\ genSession' = [genSession EXCEPT ![r] = None]
  /\ UNCHANGED <<engine, session_factory, database_url, enginesCreated,
                 disposeCount, sessionsCreated, openSessions, lifecycle, lastCall>>

NextConn ==
  \/ \E url \in Urls, o \in ConnectOutcomes : Connect(url, o)
  \/ \E o \in DisposeOutcomes : Disconnect(o)
  \/ \E o \in SessionOutcomes : GetSession(o)
  \/ \E probe \in ProbeOutcomes : CheckConnection(probe)
  \/ \E r \in Requests : GenStart(r)
  \/ \E r \in Requests, how \in GenExits : GenExit(r, how)
  \/ \E r \in Requests : GenNew(r)

(***************************************************************************)
(* The table behind a BaseRepository.  A record type is described by the   *)
(* attributes its class has (database/base.py): every table has id and     *)
(* created_at (BaseTable), a multi-tenant table adds organization_id       *)
(* (OrganizationMixin).  name and description stand for the columns the    *)
(* caller supplies.  created_at is the server's now() at insertion,        *)
(* modelled as the insertion rank; updated_at is not modelled.             *)
(***************************************************************************)
Ids == 1..MaxIds
Null == "NULL"
Unset == "UNSET"
Names == {"A", "B"}
Descriptions == {"d"}
Orgs == {"org1", "org2"}
Callers == {"c1", "c2"}

\* BareRecord is a mapped class that does not derive from BaseTable
ModelClasses == {"TenantRecord", "PlainRecord", "BareRecord"}

\* database/base.py 10-22
Attrs(mc) ==
  IF mc = "TenantRecord"
  THEN {"id", "created_at", "updated_at", "name", "description", "organization_id"}
  ELSE IF mc = "PlainRecord"
  THEN {"id", "created_at", "updated_at", "name", "description"}
  ELSE {"id", "name", "description"}

HasAttr(mc, a) == a \in Attrs(mc)

NoRecord == [id |-> 0, name |-> Null, description |-> Null,
             organization_id |-> Null, created_at |-> 0]

NoFields == [name |-> Unset, description |-> Unset, organization_id |-> Unset]

\* keyword arguments of create
CreateFields == [name : Names, description : Descriptions \cup {Unset},
                 organization_id : Orgs \cup {Unset}]

\* keyword arguments of update: at least one column is named
UpdateFields ==
  {f \in [name : Names \cup {Unset}, description : Descriptions \cup {Unset},
          organization_id : {Unset}] : f.name # Unset \/ f.description # Unset}

Rows(st) == {i \in Ids : st[i] # NoRecord}

\* `where id == :id`
RowsWithId(st, id) == {i \in Rows(st) : st[i].id = id}

\* `limit: Optional[int] = None`, `offset: Optional[int] = None`,
\* `order_by: Optional[str] = None` (repository.py 29)
NoLimit == -1
NoOrder == "None"

NoList == [limit |-> NoLimit, offset |-> NoLimit, order_by |-> NoOrder,
           ordered |-> <<>>, page |-> <<>>]

\* what a call gave; for get_all, list holds the arguments, the rows in the
\* order the statement's ORDER BY produced them, and the page returned
NoResult == [ok |-> TRUE, error |-> "none", record |-> NoRecord, bool |-> FALSE,
             int |-> 0, rows |-> {}, list |-> NoList, executed |-> FALSE]

\* the AsyncSession the repository was constructed with: which session it
\* is, what became of it, and the session methods the last operation called
CallerSession == 1

SessionMethods == {"add", "flush", "refresh", "execute", "commit", "rollback", "close"}

NewSession == [bound |-> CallerSession, closed |-> FALSE, committed |-> FALSE,
               rolled_back |-> FALSE, calls |-> {}]

\* the session after an operation called these methods on it
Called(sess, calls) ==
  [sess EXCEPT !.calls = calls,
               !.closed = @ \/ "close" \in calls,
               !.committed = @ \/ "commit" \in calls,
               !.rolled_back = @ \/ "rollback" \in calls]

\* a statement is executed on the session and nothing else
ExecuteCalls == {"execute"}

InitRepo ==
  /\ session = NewSession
  /\ model_class \in ModelClasses
  /\ store = [i \in Ids |-> NoRecord]
  /\ nextId = 0
  /\ trueDeletes = [i \in Ids |-> 0]
  /\ lastOp = [op |-> "none", caller |-> "none", id |-> 0, fields |-> NoFields,
               before |-> NoRecord, res |-> NoResult]

(***************************************************************************)
(* BaseRepository.create (lines 15-21).  The constructor rejects a keyword *)
(* the class does not have; the flush rejects a missing organization_id    *)
(* (nullable=False).  On success the row gets its id and created_at and    *)
(* the refreshed instance is returned.                                     *)
(***************************************************************************)
\* mutant: the row is committed instead of flushed
CreateCallsCommit(err) ==
  IF err = "TypeError" THEN {}
  ELSE IF err = "IntegrityError" THEN {"add", "commit"}
  ELSE {"add", "commit", "refresh"}

\* lines 17-20: the constructor, then add, flush, refresh; an error ends it
CreateCalls(err) ==
  IF err = "TypeError" THEN {}
  ELSE IF err = "IntegrityError" THEN {"add", "flush"}
  ELSE {"add", "flush", "refresh"}

CreateError(mc, f) ==
  IF f.organization_id # Unset /\ ~HasAttr(mc, "organization_id") THEN "TypeError"
  ELSE IF f.organization_id = Unset /\ HasAttr(mc, "organization_id")
  THEN "IntegrityError"
  ELSE "none"

\* the row as inserted by the flush (line 19)
\* created_at takes the server's now() where the class has the column
NewRow(mc, id, f, now) ==
  [id |-> id, name |-> f.name,
   description |-> IF f.description = Unset THEN Null ELSE f.description,
   organization_id |-> IF f.organization_id = Unset THEN Null ELSE f.organization_id,
   created_at |-> IF HasAttr(mc, "created_at") THEN now ELSE 0]

\* mutant: the instance is returned before flush and refresh populated it
CreateReturnsUnflushed(row) == [row EXCEPT !.id = 0, !.created_at = 0]

\* lines 19-21: flush, refresh, return the instance
CreateReturns(row) == row

Create(f, now) ==
  /\ LET err == CreateError(model_class, f)
         id == nextId + 1
     IN
       IF err # "none"
       THEN /\ lastOp' = [op |-> "create", caller |-> "c1", id |-> 0, fields |-> f,
                          before |-> NoRecord,
                          res |-> [NoResult EXCEPT !.ok = FALSE, !.error = err]]
            /\ UNCHANGED <<store, nextId>>
       ELSE /\ nextId < MaxIds
            /\ store' = [store EXCEPT ![id] = NewRow(model_class, id, f, now)]
            /\ nextId' = id
            /\ lastOp' = [op |-> "create", caller |-> "c1", id |-> id, fields |-> f,
                          before |-> NoRecord,
                          res |-> [NoResult EXCEPT
                                     !.record = CreateReturns(NewRow(model_class, id, f, now)),
                                     !.executed = TRUE]]
  /\ session' = Called(session, CreateCalls(CreateError(model_class, f)))
  /\ UNCHANGED <<model_class, trueDeletes>>
  /\ UNCHANGED <<connVars, keyVars, tokenVars, extVars>>

(***************************************************************************)
(* BaseRepository.get_by_id (lines 23-27): scalar_one_or_none of the rows  *)
(* whose id matches.                                                       *)
(***************************************************************************)
\* mutant: the WHERE clause is missing, the first row is returned
GetAnyRow(st, id) ==
  IF Rows(st) = {} THEN NoRecord ELSE st[CHOOSE i \in Rows(st) : TRUE]

GetById(st, id) ==
  LET rows == RowsWithId(st, id) IN
    IF rows = {} THEN NoRecord ELSE st[CHOOSE i \in rows : TRUE]

GetByIdCall(id) ==
  /\ lastOp' = [op |-> "get_by_id", caller |-> "c1", id |-> id, fields |-> NoFields,
                before |-> GetById(store, id),
                res |-> [NoResult EXCEPT !.record = GetById(store, id),
                                         !.executed = TRUE]]
  /\ session' = Called(session, ExecuteCalls)
  /\ UNCHANGED <<model_class, store, nextId, trueDeletes>>
  /\ UNCHANGED <<connVars, keyVars, tokenVars, extVars>>

(***************************************************************************)
(* BaseRepository.get_by_organization (lines 51-59).                       *)
(***************************************************************************)
\* mutant: the capability check is missing
AlwaysMultiTenant(mc) == TRUE

\* line 53
IsMultiTenant(mc) == HasAttr(mc, "organization_id")

\* lines 54-58
RowsOfOrganization(st, org) == {st[i] : i \in {j \in Rows(st) : st[j].organization_id = org}}

GetByOrganization(org) ==
  /\ lastOp' = [op |-> "get_by_organization", caller |-> "c1", id |-> 0,
                fields |-> [NoFields EXCEPT !.organization_id = org],
                before |-> NoRecord,
                res |-> IF IsMultiTenant(model_class)
                        THEN [NoResult EXCEPT
                                !.rows = RowsOfOrganization(store, org),
                                !.executed = TRUE]
                        ELSE [NoResult EXCEPT !.ok = FALSE,
                                              !.error = "not_multi_tenant"]]
  /\ session' = Called(session, IF IsMultiTenant(model_class) THEN ExecuteCalls ELSE {})
  /\ UNCHANGED <<model_class, store, nextId, trueDeletes>>
  /\ UNCHANGED <<connVars, keyVars, tokenVars, extVars>>

(***************************************************************************)
(* BaseRepository.update (lines 61-67): one UPDATE ... WHERE id = :id      *)
(* ... RETURNING statement.  The storage engine applies the named values   *)
(* to the matching row and returns it, in one step; statements of         *)
(* concurrent callers (each in its own task) execute one after another in  *)
(* either order.                                                           *)
(***************************************************************************)
\* mutant: the statement writes the whole row, unnamed columns reset to NULL
ReplaceRow(row, f) ==
  [row EXCEPT !.name = IF f.name = Unset THEN Null ELSE f.name,
              !.description = IF f.description = Unset THEN Null ELSE f.description]

\* `.values(**kwargs)`: only the named columns are assigned
ApplyValues(row, f) ==
  [row EXCEPT !.name = IF f.name = Unset THEN @ ELSE f.name,
              !.description = IF f.description = Unset THEN @ ELSE f.description]

\* mutant: the statement has no WHERE clause
UpdateStoreAll(st, id, f) ==
  [i \in Ids |-> IF i \in Rows(st) THEN ApplyValues(st[i], f) ELSE st[i]]

UpdateStore(st, id, f) ==
  [i \in Ids |-> IF i \in RowsWithId(st, id) THEN ApplyValues(st[i], f) ELSE st[i]]

\* `.returning(model_class)` and scalar_one_or_none
UpdateReturning(st, id, f) == GetById(UpdateStore(st, id, f), id)

Update(c, id, f) ==
  /\ store' = UpdateStore(store, id, f)
  /\ lastOp' = [op |-> "update", caller |-> c, id |-> id, fields |-> f,
                before |-> GetById(store, id),
                res |-> [NoResult EXCEPT !.record = UpdateReturning(store, id, f),
                                         !.executed = TRUE]]
  /\ session' = Called(session, ExecuteCalls)
  /\ UNCHANGED <<model_class, nextId, trueDeletes>>
  /\ UNCHANGED <<connVars, keyVars, tokenVars, extVars>>

(***************************************************************************)
(* BaseRepository.delete (lines 69-73).                                    *)
(***************************************************************************)
\* mutant: `rowcount >= 0`
DeleteResultAlways(rowcount) == rowcount >= 0

\* line 73
DeleteResult(rowcount) == rowcount > 0

DeleteStore(st, id) ==
  [i \in Ids |-> IF i \in RowsWithId(st, id) THEN NoRecord ELSE st[i]]

Delete(id) ==
  /\ LET rowcount == Cardinality(RowsWithId(store, id))
         result == DeleteResult(rowcount)
     IN
       /\ store' = DeleteStore(store, id)
       /\ trueDeletes' = IF result /\ id \in Ids
                         THEN [trueDeletes EXCEPT ![id] = @ + 1]
                         ELSE trueDeletes
       /\ lastOp' = [op |-> "delete", caller |-> "c1", id |-> id, fields |-> NoFields,
                     before |-> GetById(store, id),
                     res |-> [NoResult EXCEPT !.bool = result, !.executed = TRUE]]
  /\ session' = Called(session, ExecuteCalls)
  /\ UNCHANGED <<model_class, nextId>>
  /\ UNCHANGED <<connVars, keyVars, tokenVars, extVars>>

(***************************************************************************)
(* BaseRepository.count (lines 75-80): SELECT count(id), no filter.        *)
(***************************************************************************)
\* mutant: a nullable column is counted instead of the id
CountDescriptions(st) == Cardinality({i \in Rows(st) : st[i].description # Null})

CountRows(st) == Cardinality({i \in Rows(st) : st[i].id # 0})

Count ==
  /\ lastOp' = [op |-> "count", caller |-> "c1", id |-> 0, fields |-> NoFields, before |-> NoRecord,
                res |-> [NoResult EXCEPT !.int = CountRows(store),
                                         !.executed = TRUE]]
  /\ session' = Called(session, ExecuteCalls)
  /\ UNCHANGED <<model_class, store, nextId, trueDeletes>>
  /\ UNCHANGED <<connVars, keyVars, tokenVars, extVars>>

(***************************************************************************)
(* BaseRepository.get_all (lines 29-49).  The statement gets an ORDER BY,   *)
(* then OFFSET, then LIMIT; the storage engine returns the rows in an      *)
(* order that satisfies the ORDER BY and is otherwise its own choice.      *)
(***************************************************************************)
OrderBys == {NoOrder, "created_at", "name", "created_at desc"}
Limits == {NoLimit} \cup (0..MaxPage)
Offsets == {NoLimit} \cup (0..MaxPage)

NoOrdering == [key |-> "none", dir |-> "none"]

\* mutant: the default ordering lacks `.desc()`
OrderingDefaultAscending(mc, order_by) ==
  IF order_by # NoOrder /\ HasAttr(mc, order_by)
  THEN [key |-> order_by, dir |-> "asc"]
  ELSE IF HasAttr(mc, "created_at") THEN [key |-> "created_at", dir |-> "asc"]
  ELSE NoOrdering

\* mutant: order_by is not looked at
OrderingIgnoresOrderBy(mc, order_by) ==
  IF HasAttr(mc, "created_at") THEN [key |-> "created_at", dir |-> "desc"]
  ELSE NoOrdering

\* lines 33-40
Ordering(mc, order_by) ==
  IF order_by # NoOrder /\ HasAttr(mc, order_by)
  THEN [key |-> order_by, dir |-> "asc"]
  ELSE IF HasAttr(mc, "created_at") THEN [key |-> "created_at", dir |-> "desc"]
  ELSE NoOrdering

\* the collation of the names: "A" sorts before "B"
NameRank(n) == IF n = "A" THEN 1 ELSE 2

SortKey(row, key) ==
  IF key = "created_at" THEN row.created_at
  ELSE IF key = "name" THEN NameRank(row.name)
  ELSE row.id

InOrder(seq, o) ==
  \A i, j \in 1..Len(seq) :
    i < j => CASE o.dir = "asc" -> SortKey(seq[i], o.key) <= SortKey(seq[j], o.key)
               [] o.dir = "desc" -> SortKey(seq[i], o.key) >= SortKey(seq[j], o.key)
               [] OTHER -> TRUE

\* every sequence that holds each row of the table once
RowSeqs(st) ==
  LET n == Cardinality(Rows(st)) IN
    {[k \in 1..n |-> st[p[k]]] :
       p \in {q \in [1..n -> Rows(st)] : \A i, j \in 1..n : i # j => q[i] # q[j]}}

\* what the SELECT with this ORDER BY can return
OrderedResults(st, o) == {seq \in RowSeqs(st) : InOrder(seq, o)}

\* seq is one of them
CanReturn(seq, st, o) ==
  /\ Len(seq) = Cardinality(Rows(st))
  /\ \A i \in Rows(st) : \E k \in 1..Len(seq) : seq[k] = st[i]
  /\ InOrder(seq, o)

\* mutant: LIMIT is applied before OFFSET
PageLimitFirst(seq, limit, offset) ==
  LET capped == IF limit = NoLimit \/ limit >= Len(seq) THEN seq
                ELSE SubSeq(seq, 1, limit)
  IN IF offset = NoLimit THEN capped
     ELSE IF offset >= Len(capped) THEN <<>>
     ELSE SubSeq(capped, offset + 1, Len(capped))

\* lines 43-46: OFFSET skips rows of the ordered result, LIMIT caps the rest
Page(seq, limit, offset) ==
  LET skipped == IF offset = NoLimit THEN seq
                 ELSE IF offset >= Len(seq) THEN <<>>
                 ELSE SubSeq(seq, offset + 1, Len(seq))
  IN IF limit = NoLimit \/ limit >= Len(skipped) THEN skipped
     ELSE SubSeq(skipped, 1, limit)

GetAll(limit, offset, order_by, seq) ==
  /\ CanReturn(seq, store, Ordering(model_class, order_by))
  /\ lastOp' = [op |-> "get_all", caller |-> "c1", id |-> 0, fields |-> NoFields,
                  before |-> NoRecord,
                  res |-> [NoResult EXCEPT
                             !.list = [limit |-> limit, offset |-> offset,
                                       order_by |-> order_by, ordered |-> seq,
                                       page |-> Page(seq, limit, offset)],
                             !.executed = TRUE]]
  /\ session' = Called(session, ExecuteCalls)
  /\ UNCHANGED <<model_class, store, nextId, trueDeletes>>
  /\ UNCHANGED <<connVars, keyVars, tokenVars, extVars>>

\* an id no record has ever had (a random uuid)
UnusedId == MaxIds + 1

LookupIds == Ids \cup {UnusedId}

NextRepo ==
  \/ \E f \in CreateFields : Create(f, nextId + 1)
  \/ \E id \in LookupIds : GetByIdCall(id)
  \/ \E org \in Orgs : GetByOrganization(org)
  \/ \E c \in Callers, id \in LookupIds, f \in UpdateFields : Update(c, id, f)
  \/ \E id \in LookupIds : Delete(id)
  \/ Count

(***************************************************************************)
(* auth/api_keys.py: APIKeyManager.  Each entry of the key table is read   *)
(* from an environment variable at every call, with a default.             *)
(***************************************************************************)
KeyTable == {"profiles", "referrals", "notifications", "insurance", "master"}

\* names a dependency can be created for; "billing" is not in the table
ServiceNames == KeyTable \cup {"billing"}

\* lines 13-17, second argument of os.getenv
DefaultKey(s) ==
  CASE s = "profiles" -> "wekare-team-2024-profiles-api"
    [] s = "referrals" -> "wekare-team-2024-referrals-api"
    [] s = "notifications" -> "wekare-team-2024-notifications-api"
    [] s = "insurance" -> "wekare-team-2024-insurance-api"
    [] s = "master" -> "wekare-dev-2024"

\* values the deployment may give the variables <SERVICE>_API_KEY
EnvValues == {"k1", "k2"}

\* keys a request may carry
ProvidedKeys ==
  {DefaultKey(s) : s \in KeyTable} \cup EnvValues \cup {"", "wrong-key"}

NoAuth == [op |-> "none", service |-> "none", provided |-> "",
           raised |-> FALSE, status_code |-> 0, detail |-> <<>>, value |-> FALSE]

InitKeys ==
  /\ environ = [s \in KeyTable |-> Unset]
  /\ lastAuth = NoAuth

\* lines 12-19: os.getenv with the default, "" for a name not in the table
get_service_api_key(env, s) ==
  IF s \notin KeyTable THEN ""
  ELSE IF env[s] = Unset THEN DefaultKey(s) ELSE env[s]

\* mutant: the master key is not looked at
VerifyServiceKeyOnly(env, s, key) == key = get_service_api_key(env, s)

\* mutant: any key of the table is accepted
VerifyAnyTableKey(env, s, key) ==
  key \in {get_service_api_key(env, t) : t \in KeyTable \cup {s}}

\* lines 24-28
verify_service_api_key(env, s, key) ==
  key \in {get_service_api_key(env, s), get_service_api_key(env, "master")}

\* mutant: the dependency returns the verdict
VerifyApiKeyReturnsVerdict(env, s, key) ==
  [raised |-> FALSE, status_code |-> 0, detail |-> <<>>,
   value |-> verify_service_api_key(env, s, key)]

\* lines 33-48: the dependency made by create_api_key_dependency(s)
verify_api_key(env, s, key) ==
  IF ~verify_service_api_key(env, s, key)
  THEN [raised |-> TRUE, status_code |-> 401,
        detail |-> <<"Invalid API Key", s, "X-API-Key",
                     <<get_service_api_key(env, s), "master_key_also_accepted">> >>,
        value |-> FALSE]
  ELSE [raised |-> FALSE, status_code |-> 0, detail |-> <<>>, value |-> TRUE]

\* the deployment sets or clears a variable; calls made before it are history
SetEnv(s, v) ==
  /\ environ[s] # v
  /\ environ' = [environ EXCEPT ![s] = v]
  /\ lastAuth' = NoAuth
  /\ UNCHANGED <<connVars, repoVars, tokenVars, extVars>>

\* a request reaches the dependency of service s with header X-API-Key: key
Dependency(s, key) ==
  /\ LET out == verify_api_key(environ, s, key) IN
       lastAuth' = [op |-> "dependency", service |-> s, provided |-> key,
                    raised |-> out.raised, status_code |-> out.status_code,
                    detail |-> out.detail, value |-> out.value]
  /\ UNCHANGED environ
  /\ UNCHANGED <<connVars, repoVars, tokenVars, extVars>>

NextKeys ==
  \/ \E s \in KeyTable, v \in EnvValues \cup {Unset} : SetEnv(s, v)
  \/ \E s \in ServiceNames, key \in ProvidedKeys : Dependency(s, key)

(***************************************************************************)
(* get_token_from_request of shared/auth/token_verifier.py (lines 17-24)   *)
(* and of auth/token_verifier.py (lines 12-16).  A header value is a       *)
(* sequence of pieces: the word Bearer, one space, or other text without a *)
(* space; the empty sequence is the empty string.                          *)
(***************************************************************************)
Pieces == {"Bearer", " ", "t"}

HeaderValues == UNION {[1..n -> Pieces] : n \in 0..MaxHeaderLen}

TokenModules == {"shared.auth.token_verifier", "auth.token_verifier"}

NoToken == [op |-> "none", module |-> "none", present |-> FALSE, header |-> <<>>,
            raised |-> FALSE, error |-> "none", status_code |-> 0,
            detail |-> "none", token |-> <<>>]

InitToken == lastToken = NoToken

\* mutant: `auth.startswith("Bearer")`
StartsWithBearerWord(auth) == Len(auth) >= 1 /\ auth[1] = "Bearer"

\* `auth.startswith("Bearer ")`
StartsWithBearer(auth) == Len(auth) >= 2 /\ auth[1] = "Bearer" /\ auth[2] = " "

RECURSIVE Split(_)
\* `auth.split(" ")`: the parts between single spaces, empty parts included
Split(str) ==
  IF \A i \in 1..Len(str) : str[i] # " " THEN <<str>>
  ELSE LET i == CHOOSE k \in 1..Len(str) :
                  str[k] = " " /\ \A j \in 1..(k - 1) : str[j] # " "
       IN <<SubSeq(str, 1, i - 1)>> \o Split(SubSeq(str, i + 1, Len(str)))

MissingToken == [raised |-> TRUE, error |-> "HTTPException", status_code |-> 401,
                 detail |-> "Missing token", token |-> <<>>]

Returned(token) == [raised |-> FALSE, error |-> "none", status_code |-> 0,
                    detail |-> "none", token |-> token]

\* `not auth`: the header is absent (None) or the empty string
Falsy(present, auth) == ~present \/ auth = <<>>

\* shared/auth/token_verifier.py 18-24
get_token_from_request(present, auth) ==
  IF Falsy(present, auth) \/ ~StartsWithBearer(auth) THEN MissingToken
  ELSE LET token_parts == Split(auth) IN
         IF Len(token_parts) < 2 THEN MissingToken
         ELSE Returned(token_parts[2])

\* auth/token_verifier.py 13-16
get_token_from_request_auth(present, auth) ==
  IF Falsy(present, auth) \/ ~StartsWithBearer(auth) THEN MissingToken
  ELSE LET token_parts == Split(auth) IN
         IF Len(token_parts) < 2
         THEN [raised |-> TRUE, error |-> "IndexError", status_code |-> 0,
               detail |-> "none", token |-> <<>>]
         ELSE Returned(token_parts[2])

\* a request with this Authorization header (absent: present = FALSE)
GetTokenFromRequest(m, present, auth) ==
  /\ ~present => auth = <<>>
  /\ LET out == IF m = "auth.token_verifier"
                THEN get_token_from_request_auth(present, auth)
                ELSE get_token_from_request(present, auth)
     IN lastToken' = [op |-> "get_token_from_request", module |-> m,
                      present |-> present, header |-> auth,
                      raised |-> out.raised, error |-> out.error,
                      status_code |-> out.status_code, detail |-> out.detail,
                      token |-> out.token]
  /\ UNCHANGED <<connVars, repoVars, keyVars, extVars>>

NextToken ==
  \E m \in TokenModules, present \in BOOLEAN, auth \in HeaderValues :
    GetTokenFromRequest(m, present, auth)

(***************************************************************************)
(* verify_token of shared/auth/token_verifier.py (lines 26-30).  A token   *)
(* is what jwt.encode made of a payload, a signing key and an algorithm,   *)
(* or a string that is no JWT; jwt.decode checks, in this order, the form, *)
(* the algorithm against the configured one, the signature against the    *)
(* configured secret and the exp claim, and raises on the first failure.   *)
(* An HMAC signature verifies exactly under the key that made it.          *)
(***************************************************************************)
Secrets == {"secret", "X", "Y"}
Algorithms == {"HS256", "HS512"}
Payloads == {"sub_1", "sub_2_aud"}

\* "empty" is the string "", "malformed" any other string that is no JWT
Tokens ==
  [form : {"jwt"}, alg : Algorithms, key : Secrets, expired : BOOLEAN,
   payload : Payloads]
    \cup {[form |-> f, alg |-> "HS256", key |-> "secret", expired |-> FALSE,
           payload |-> "sub_1"] : f \in {"empty", "malformed"}}

NoVerify == [op |-> "none", token |-> CHOOSE t \in Tokens : t.form = "empty",
             raised |-> FALSE, status_code |-> 0, detail |-> "none",
             payload |-> "none"]

InitJwt ==
  /\ jwt_environ = [JWT_SECRET |-> Unset, JWT_ALGORITHM |-> Unset]
  /\ lastVerify = NoVerify

\* lines 9-11
get_jwt_secret(env) == IF env.JWT_SECRET = Unset THEN "secret" ELSE env.JWT_SECRET

\* lines 13-15
get_jwt_algorithm(env) ==
  IF env.JWT_ALGORITHM = Unset THEN "HS256" ELSE env.JWT_ALGORITHM

\* mutant: the signature is not verified
DecodeUnverified(token, key, algorithms) ==
  IF token.form # "jwt" THEN [error |-> "DecodeError", payload |-> "none"]
  ELSE IF token.alg \notin algorithms
  THEN [error |-> "InvalidAlgorithmError", payload |-> "none"]
  ELSE IF token.expired THEN [error |-> "ExpiredSignatureError", payload |-> "none"]
  ELSE [error |-> "none", payload |-> token.payload]

\* jwt.decode(token, key, algorithms=..., options={"verify_aud": False})
Decode(token, key, algorithms) ==
  IF token.form # "jwt" THEN [error |-> "DecodeError", payload |-> "none"]
  ELSE IF token.alg \notin algorithms
  THEN [error |-> "InvalidAlgorithmError", payload |-> "none"]
  ELSE IF token.key # key THEN [error |-> "InvalidSignatureError", payload |-> "none"]
  ELSE IF token.expired THEN [error |-> "ExpiredSignatureError", payload |-> "none"]
  ELSE [error |-> "none", payload |-> token.payload]

\* mutant: the library's error reaches the caller as it is
VerifyTokenPropagates(env, token) ==
  LET out == Decode(token, get_jwt_secret(env), {get_jwt_algorithm(env)}) IN
    IF out.error # "none"
    THEN [raised |-> TRUE, status_code |-> 500, detail |-> out.error,
          payload |-> "none"]
    ELSE [raised |-> FALSE, status_code |-> 0, detail |-> "none",
          payload |-> out.payload]

\* lines 27-30: every exception of the decode becomes the same 403
verify_token(env, token) ==
  LET out == Decode(token, get_jwt_secret(env), {get_jwt_algorithm(env)}) IN
    IF out.error # "none"
    THEN [raised |-> TRUE, status_code |-> 403, detail |-> "Invalid token",
          payload |-> "none"]
    ELSE [raised |-> FALSE, status_code |-> 0, detail |-> "none",
          payload |-> out.payload]

\* the deployment sets or clears a variable; calls made before it are history
SetJwtEnv(name, v) ==
  /\ jwt_environ[name] # v
  /\ name = "JWT_SECRET" => v \in Secrets \cup {Unset}
  /\ name = "JWT_ALGORITHM" => v \in Algorithms \cup {Unset}
  /\ jwt_environ' = [jwt_environ EXCEPT ![name] = v]
  /\ lastVerify' = NoVerify
  /\ UNCHANGED <<connVars, repoVars, keyVars, tokenVars, s3Vars, cfgVars, lifeVars>>

VerifyToken(token) ==
  /\ LET out == verify_token(jwt_environ, token) IN
       lastVerify' = [op |-> "verify_token", token |-> token,
                      raised |-> out.raised, status_code |-> out.status_code,
                      detail |-> out.detail, payload |-> out.payload]
  /\ UNCHANGED jwt_environ
  /\ UNCHANGED <<connVars, repoVars, keyVars, tokenVars, s3Vars, cfgVars, lifeVars>>

NextJwt ==
  \/ \E name \in {"JWT_SECRET", "JWT_ALGORITHM"},
        v \in Secrets \cup Algorithms \cup {Unset} : SetJwtEnv(name, v)
  \/ \E token \in Tokens : VerifyToken(token)

(***************************************************************************)
(* shared/storage/s3_client.py: S3Config.from_shared_config and S3Client.  *)
(* Every operation runs inside `try: ... except ClientError ... except     *)
(* Exception` and reaches the backend through the lazy `client` property.  *)
(***************************************************************************)
S3Ops == {"upload_file", "upload_fileobj", "download_file", "download_fileobj",
          "get_object", "delete_object", "list_objects", "object_exists",
          "get_presigned_url", "copy_object"}

\* what each operation returns from its except clauses
FailureValue(op) ==
  IF op \in {"get_object", "get_presigned_url"} THEN "None"
  ELSE IF op = "list_objects" THEN "[]"
  ELSE "False"

\* what each operation returns when the backend call went through
SuccessValue(op) ==
  IF op = "get_object" THEN "object"
  ELSE IF op = "get_presigned_url" THEN "url"
  ELSE IF op = "list_objects" THEN "objects"
  ELSE "True"

\* configurations the constructor may be given (lines 105-112)
ConfigKinds == {"S3Config", "shared_with_bucket", "shared_without_bucket",
                "global_with_bucket", "global_without_bucket"}

\* lines 39-44: `if not config.aws_s3_bucket_name: raise ValueError`
FromSharedConfigRaises(kind) ==
  kind \in {"shared_without_bucket", "global_without_bucket"}

\* what boto3.Session / session.client can do (lines 143-157)
CreateOutcomes == {"ok", "NoCredentialsError", "Exception"}

\* what a backend call can do: go through, or raise a ClientError (missing
\* object, access denied) or any other exception
BackendOutcomes == {"ok", "ClientError_404", "ClientError_AccessDenied", "Exception"}

Methods == {"GET", "get", "Put", "DELETE", "POST", "patch", ""}

\* `http_method.upper()`
Upper(m) ==
  CASE m = "get" -> "GET"
    [] m = "Put" -> "PUT"
    [] m = "patch" -> "PATCH"
    [] OTHER -> m

NoClient == 0

NoS3Call == [op |-> "none", config |-> "none", exists |-> TRUE, method |-> "GET", create |-> "ok",
             backend |-> "ok", client_before |-> NoClient, raised |-> FALSE,
             error |-> "none", value |-> "none", create_attempted |-> FALSE,
             backend_called |-> FALSE]

InitS3 ==
  /\ s3_config = "unconstructed"
  /\ s3_client = NoClient
  /\ s3_made = 0
  /\ s3_ids = 0
  /\ lastS3 = NoS3Call

\* S3Client.__init__ (lines 105-120): a new object, its _client unset
S3Init(kind) ==
  /\ IF FromSharedConfigRaises(kind)
     THEN /\ s3_config' = "unconstructed"
          /\ lastS3' = [NoS3Call EXCEPT !.op = "__init__", !.config = kind,
                                        !.raised = TRUE, !.error = "ValueError"]
     ELSE /\ s3_config' = "configured"
          /\ lastS3' = [NoS3Call EXCEPT !.op = "__init__", !.config = kind,
                                        !.value = "S3Client"]
  /\ s3_client' = NoClient
  /\ s3_made' = 0
  /\ UNCHANGED s3_ids
  /\ UNCHANGED <<connVars, repoVars, keyVars, tokenVars, jwtVars, cfgVars, lifeVars>>

\* lines 165-170: both except clauses raise ValueError
CreateClientError(create) == IF create = "ok" THEN "none" ELSE "ValueError"

\* mutant: the property hands out a new client and does not keep it
ClientNotKept(client, create, ids) ==
  IF create = "ok"
  THEN [client |-> client, handed |-> ids + 1, made |-> 1, error |-> "none",
        attempted |-> TRUE]
  ELSE [client |-> client, handed |-> NoClient, made |-> 0,
        error |-> CreateClientError(create), attempted |-> TRUE]

\* the `client` property (lines 122-127): the field after the access, the
\* client handed to the caller, clients made, and the error raised
ClientProperty(client, create, ids) ==
  IF client # NoClient
  THEN [client |-> client, handed |-> client, made |-> 0, error |-> "none",
        attempted |-> FALSE]
  ELSE IF create = "ok"
  THEN [client |-> ids + 1, handed |-> ids + 1, made |-> 1, error |-> "none",
        attempted |-> TRUE]
  ELSE [client |-> NoClient, handed |-> NoClient, made |-> 0,
        error |-> CreateClientError(create), attempted |-> TRUE]

\* reading `s3.client` directly
ClientAccess(create) ==
  /\ s3_config = "configured"
  /\ (s3_client = NoClient /\ create = "ok") => s3_ids < MaxClients
  /\ LET acc == ClientProperty(s3_client, create, s3_ids) IN
       /\ s3_client' = acc.client
       /\ s3_made' = s3_made + acc.made
       /\ s3_ids' = s3_ids + acc.made
       /\ lastS3' = [NoS3Call EXCEPT
                       !.op = "client", !.create = create,
                       !.client_before = s3_client,
                       !.raised = acc.error # "none", !.error = acc.error,
                       !.value = IF acc.error = "none" THEN "client" ELSE "none",
                       !.create_attempted = acc.attempted]
  /\ UNCHANGED s3_config
  /\ UNCHANGED <<connVars, repoVars, keyVars, tokenVars, jwtVars, cfgVars, lifeVars>>

\* mutant: nothing is checked before the client is used
NeverRejected(op, exists, method) == FALSE

\* upload_file lines 188-191, get_presigned_url lines 511-520
RejectedLocally(op, exists, method) ==
  \/ op = "upload_file" /\ ~exists
  \/ op = "get_presigned_url" /\ Upper(method) \notin {"GET", "PUT", "DELETE"}

\* mutant: only `except ClientError` is there
CaughtClientErrorOnly(exc) == exc \in {"ClientError_404", "ClientError_AccessDenied"}

\* `except ClientError` and `except Exception` of every operation
Caught(exc) ==
  exc \in {"ClientError_404", "ClientError_AccessDenied", "Exception",
           "ValueError", "FileNotFoundError"}

\* the exception raised in the try block, "none" if it ran to its return
RaisedInTry(acc, backend) ==
  IF acc.error # "none" THEN acc.error
  ELSE IF backend # "ok" THEN backend
  ELSE "none"

\* one operation of S3Client (lines 172-596)
S3Call(op, exists, method, create, backend) ==
  /\ s3_config = "configured"
  /\ op # "upload_file" => exists
  /\ op # "get_presigned_url" => method = "GET"
  /\ IF RejectedLocally(op, exists, method)
     THEN /\ lastS3' = [NoS3Call EXCEPT
                          !.op = op, !.exists = exists, !.method = method,
                          !.client_before = s3_client,
                          !.value = FailureValue(op)]
          /\ UNCHANGED <<s3_client, s3_made, s3_ids>>
     ELSE /\ (s3_client = NoClient /\ create = "ok") => s3_ids < MaxClients
          /\ LET acc == ClientProperty(s3_client, create, s3_ids)
                 exc == RaisedInTry(acc, backend)
             IN /\ s3_client' = acc.client
                /\ s3_made' = s3_made + acc.made
                /\ s3_ids' = s3_ids + acc.made
                /\ lastS3' = [op |-> op, config |-> "none",
                              exists |-> exists, method |-> method,
                              create |-> create, backend |-> backend,
                              client_before |-> s3_client,
                              raised |-> exc # "none" /\ ~Caught(exc),
                              error |-> IF exc # "none" /\ ~Caught(exc)
                                        THEN exc ELSE "none",
                              value |-> IF exc = "none" THEN SuccessValue(op)
                                        ELSE IF Caught(exc) THEN FailureValue(op)
                                        ELSE "none",
                              create_attempted |-> acc.attempted,
                              backend_called |-> acc.error = "none"]
  /\ UNCHANGED s3_config
  /\ UNCHANGED <<connVars, repoVars, keyVars, tokenVars, jwtVars, cfgVars, lifeVars>>

NextS3 ==
  \/ \E kind \in ConfigKinds : S3Init(kind)
  \/ \E create \in CreateOutcomes : ClientAccess(create)
  \/ \E op \in S3Ops, exists \in BOOLEAN, method \in Methods,
        create \in CreateOutcomes, backend \in BackendOutcomes :
       S3Call(op, exists, method, create, backend)

(***************************************************************************)
(* shared/config/base_config.py lines 418-447: the module-level            *)
(* _global_config with set_global_config, get_shared_config and            *)
(* reset_global_config.  An instance is known by its identity; its         *)
(* aws_s3_bucket_name stands for its fields.                               *)
(***************************************************************************)
ConfigIds == 1..MaxConfigs
Absent == "absent"
BucketNames == {"global-bucket", "from-env"}

NoCfgCall == [op |-> "none", arg |-> None, before |-> None, returned |-> None,
              created |-> FALSE, raised |-> FALSE]

\* line 419
InitCfg ==
  /\ global_config = None
  /\ cfg_fields = [i \in ConfigIds |-> Absent]
  /\ cfg_installed = {}
  /\ lastCfg = NoCfgCall

Existing(fields) == {i \in ConfigIds : fields[i] # Absent}

\* the identity a newly constructed instance gets
NewConfigId(fields) == Cardinality(Existing(fields)) + 1

\* the caller constructs an instance, e.g. for_development(s3_bucket=...)
NewConfig(bucket) ==
  /\ Cardinality(Existing(cfg_fields)) < MaxConfigs
  /\ cfg_fields' = [cfg_fields EXCEPT ![NewConfigId(cfg_fields)] = bucket]
  /\ lastCfg' = [NoCfgCall EXCEPT !.op = "construct",
                                  !.returned = NewConfigId(cfg_fields),
                                  !.before = global_config]
  /\ UNCHANGED <<global_config, cfg_installed>>
  /\ UNCHANGED <<connVars, repoVars, keyVars, tokenVars, jwtVars, s3Vars, lifeVars>>

\* lines 422-426
SetGlobalConfig(c) ==
  /\ c \in Existing(cfg_fields)
  /\ global_config' = c
  /\ cfg_installed' = cfg_installed \cup {c}
  /\ lastCfg' = [NoCfgCall EXCEPT !.op = "set_global_config", !.arg = c,
                                  !.before = global_config]
  /\ UNCHANGED cfg_fields
  /\ UNCHANGED <<connVars, repoVars, keyVars, tokenVars, jwtVars, s3Vars, lifeVars>>

\* what SharedInfrastructureConfig() can do with the environment it reads
DefaultConfigOutcomes == {"ok", "ValidationError"}

\* line 437
MustCreate(g) == g = None

\* lines 436-440
GetSharedConfig(outcome) ==
  /\ IF MustCreate(global_config)
     THEN IF outcome = "ok"
          THEN /\ Cardinality(Existing(cfg_fields)) < MaxConfigs
               /\ cfg_fields' = [cfg_fields EXCEPT
                                   ![NewConfigId(cfg_fields)] = "from-env"]
               /\ global_config' = NewConfigId(cfg_fields)
               /\ cfg_installed' = cfg_installed \cup {NewConfigId(cfg_fields)}
               /\ lastCfg' = [NoCfgCall EXCEPT
                                !.op = "get_shared_config",
                                !.before = global_config,
                                !.returned = NewConfigId(cfg_fields),
                                !.created = TRUE]
          ELSE /\ lastCfg' = [NoCfgCall EXCEPT
                                !.op = "get_shared_config",
                                !.before = global_config, !.raised = TRUE]
               /\ UNCHANGED <<global_config, cfg_fields, cfg_installed>>
     ELSE /\ outcome = "ok"
          /\ lastCfg' = [NoCfgCall EXCEPT !.op = "get_shared_config",
                                          !.before = global_config,
                                          !.returned = global_config]
          /\ UNCHANGED <<global_config, cfg_fields, cfg_installed>>
  /\ UNCHANGED <<connVars, repoVars, keyVars, tokenVars, jwtVars, s3Vars, lifeVars>>

\* mutant: the holder is left as it is
GlobalKeptAfterReset(g) == g

\* line 446
GlobalAfterReset(g) == None

\* lines 443-447
ResetGlobalConfig ==
  /\ global_config' = GlobalAfterReset(global_config)
  /\ lastCfg' = [NoCfgCall EXCEPT !.op = "reset_global_config",
                                  !.before = global_config]
  /\ UNCHANGED <<cfg_fields, cfg_installed>>
  /\ UNCHANGED <<connVars, repoVars, keyVars, tokenVars, jwtVars, s3Vars, lifeVars>>

NextCfg ==
  \/ NewConfig("global-bucket")
  \/ \E c \in ConfigIds : SetGlobalConfig(c)
  \/ \E outcome \in DefaultConfigOutcomes : GetSharedConfig(outcome)
  \/ ResetGlobalConfig

(***************************************************************************)
(* ServiceDatabase.lifespan (service_db.py 12-32), an asynccontextmanager   *)
(* over the module-level manager db.  The statements before the yield are  *)
(* the startup step, the ones after it the shutdown step; an exception of  *)
(* the body is raised at the yield.                                        *)
(***************************************************************************)
\* values of the environment variable DATABASE_URL
DatabaseUrlValues == {Unset, ""} \cup Urls

\* values of the environment variable RUN_MIGRATIONS
RunMigrationsValues == {Unset, "true", "TRUE", "false", "1"}

\* what _run_unified_migrations meets: no directory, alembic returning 0,
\* alembic returning non-zero, subprocess.run or Path raising
MigrationOutcomes == {"no_dir", "ok", "failed", "Exception"}

\* how the body of the context ends
BodyExits == {"normal", "exception"}

\* str.lower on the values above
Lower(v) == IF v = "TRUE" THEN "true" ELSE v

\* connection.py 212-214
GetDatabaseUrlRaises(dburl) == dburl = Unset \/ dburl = ""

\* line 22: os.getenv("RUN_MIGRATIONS", "false").lower() == "true"
MigrationsEnabled(runmig) ==
  Lower(IF runmig = Unset THEN "false" ELSE runmig) = "true"

\* lines 36-52: the whole body is inside try / except Exception
MigrationRaises(mig) == FALSE

\* lines 28-32 follow the yield with no try / finally around it: they run
\* only when the body returned
RunsShutdown(how) == how = "normal"

NoLife == [op |-> "none", database_url |-> Unset, connect |-> "not_called",
           run_migrations |-> Unset, migration |-> "not_run", raised |-> FALSE,
           exit |-> "none", disconnect_called |-> FALSE, engine |-> None]

InitLife ==
  /\ life_pc = "out"
  /\ lastLife = NoLife

\* lines 16-26: entering the context
LifespanStartup(dburl, runmig, mig, o) ==
  /\ life_pc = "out"
  /\ IF GetDatabaseUrlRaises(dburl)
     THEN /\ UNCHANGED connVars
          /\ life_pc' = "out"
          /\ lastLife' = [NoLife EXCEPT !.op = "startup", !.database_url = dburl,
                                        !.raised = TRUE]
     ELSE /\ ConnectFields(dburl, o)
          /\ LET connected == ConnectResult(o) = "ok"
                 migration == IF ~connected THEN "not_run"
                              ELSE IF MigrationsEnabled(runmig) THEN mig
                              ELSE "skipped"
                 raised == ~connected
                             \/ (migration \in MigrationOutcomes /\ MigrationRaises(mig))
             IN  /\ life_pc' = IF raised THEN "out" ELSE "body"
                 /\ lastLife' = [NoLife EXCEPT !.op = "startup",
                                               !.database_url = dburl,
                                               !.connect = o,
                                               !.run_migrations = runmig,
                                               !.migration = migration,
                                               !.raised = raised,
                                               !.engine = engine']
  /\ UNCHANGED <<repoVars, keyVars, tokenVars, jwtVars, s3Vars, cfgVars>>

\* lines 28-32: the body ended and the context is left
LifespanShutdown(how, o) ==
  /\ life_pc = "body"
  /\ life_pc' = "out"
  /\ IF RunsShutdown(how)
     THEN /\ DisconnectFields(o)
          /\ lastLife' = [lastLife EXCEPT !.op = "shutdown", !.exit = how,
                                          !.disconnect_called = TRUE,
                                          !.raised = DisconnectRaises(engine, o)]
     ELSE /\ UNCHANGED connVars
          /\ lastLife' = [lastLife EXCEPT !.op = "shutdown", !.exit = how,
                                          !.disconnect_called = FALSE,
                                          !.raised = TRUE]
  /\ UNCHANGED <<repoVars, keyVars, tokenVars, jwtVars, s3Vars, cfgVars>>

NextLife ==
  \/ \E dburl \in DatabaseUrlValues, runmig \in RunMigrationsValues,
        mig \in MigrationOutcomes, o \in ConnectOutcomes :
       LifespanStartup(dburl, runmig, mig, o)
  \/ \E how \in BodyExits, o \in DisposeOutcomes : LifespanShutdown(how, o)

Init == InitConn /\ InitRepo /\ InitKeys /\ InitToken /\ InitJwt /\ InitS3 /\ InitCfg
        /\ InitLife

Next == NextConn \/ NextRepo \/ NextKeys \/ NextToken \/ NextJwt \/ NextS3 \/ NextCfg
          \/ NextLife

Spec == Init /\ [][Next]_vars

\* the manager alone: the repository is bound to one record type and unused
InitManager == Init /\ model_class = "TenantRecord"

SpecConn == InitManager /\ [][NextConn]_vars

SpecRepo == Init /\ [][NextRepo]_vars

SpecKeys == InitManager /\ [][NextKeys]_vars

SpecToken == InitManager /\ [][NextToken]_vars

SpecJwt == InitManager /\ [][NextJwt]_vars

SpecS3 == InitManager /\ [][NextS3]_vars

SpecCfg == InitManager /\ [][NextCfg]_vars

SpecLife == InitManager /\ [][NextLife]_vars

\* listing: rows differ in name and creation time; several creates can fall
\* on one reading of the server's clock
ListFields == {f \in CreateFields : f.description = Unset /\ f.organization_id # "org2"}

\* readings of the server's clock a create can see: the one the latest row
\* saw, or the next
Nows(st) ==
  IF Rows(st) = {} THEN {1}
  ELSE LET latest == CHOOSE i \in Rows(st) :
                       \A j \in Rows(st) : st[j].created_at <= st[i].created_at
       IN IF st[latest].created_at = 0 THEN {1}
          ELSE {st[latest].created_at, st[latest].created_at + 1}

\* ordering: every order_by, with and without LIMIT 1
NextList ==
  \/ \E f \in ListFields, now \in Nows(store) : Create(f, now)
  \/ \E order_by \in OrderBys, limit \in {NoLimit, 1} :
       \E seq \in OrderedResults(store, Ordering(model_class, order_by)) :
         GetAll(limit, NoLimit, order_by, seq)

\* pagination: every limit and offset, on the default ordering
NextPage ==
  \/ \E f \in ListFields, now \in Nows(store) : Create(f, now)
  \/ \E seq \in OrderedResults(store, Ordering(model_class, NoOrder)) :
       \E limit \in Limits, offset \in Offsets : GetAll(limit, offset, NoOrder, seq)

\* every operation of the repository on one borrowed session
NextBorrow ==
  \/ NextRepo
  \/ \E seq \in OrderedResults(store, Ordering(model_class, NoOrder)) :
       GetAll(1, NoLimit, NoOrder, seq)

SpecBorrow == Init /\ [][NextBorrow]_vars

InitList == Init /\ model_class \in {"PlainRecord", "BareRecord"}

SpecList == InitList /\ [][NextList]_vars

SpecPage == InitList /\ [][NextPage]_vars

(***************************************************************************)
(* Properties of the connection manager.                                   *)
(***************************************************************************)
AllNull == engine = None /\ session_factory = None /\ database_url = NoUrl

SessionCalls == {"get_session", "dependency"}

\* C1: get_session() and the request dependency's first advance fail with
\* "Database connection not established", creating no session, when called
\* before any connect() and when called after a disconnect() that followed a
\* connect().
C1_NotEstablished ==
  (lastCall.op \in SessionCalls /\ lastCall.at \in {"never", "disconnected"})
    => /\ lastCall.result = "not_established"
       /\ lastCall.session = None
       /\ sessionsCreated = lastCall.preSessions

C1_Witness ==
  /\ lastCall.op = "get_session"
  /\ lastCall.at = "disconnected"
  /\ lastCall.result = "not_established"
  /\ \E e \in EngineIds : disposeCount[e] = 1

\* C2: get_session() returns a session only if the most recent connect()
\* completed successfully and no disconnect() has completed since; after a
\* connect() that raised on an uninitialized manager it still fails.
C2_SessionOnlyWhileConnected ==
  (lastCall.op = "get_session" /\ lastCall.result = "session")
    => lastCall.at = "connected"

\* C3: a session yielded by the request dependency is released when the
\* generator ends, whether it was resumed, an exception was thrown in at the
\* yield, or it was closed; while the request holds it, it is open.
C3_SessionReleased ==
  \A r \in Requests :
    /\ genPc[r] \in {"done", "raised", "closed"}
         => genSession[r] # None /\ genSession[r] \notin openSessions
    /\ genPc[r] = "yielded" => genSession[r] \in openSessions
    /\ genPc[r] \in {"new", "failed"} => genSession[r] = None

C3_Witness ==
  \E r1, r2 \in Requests :
    /\ genPc[r1] = "raised" /\ genSession[r1] \notin openSessions
    /\ genPc[r2] = "closed" /\ genSession[r2] \notin openSessions

\* C4: a connect() that returns leaves the manager connected; a disconnect()
\* that returns on a manager holding an engine has disposed that engine
\* exactly once and leaves engine, session factory and URL null; disconnect()
\* on a manager whose engine is null disposes nothing, raises nothing and
\* leaves the same all-null state.
C4_Lifecycle ==
  /\ (lastCall.op = "connect" /\ lastCall.result = "ok")
       => engine # None /\ session_factory = engine /\ database_url \in Urls
  /\ (lastCall.op = "disconnect" /\ lastCall.pre.engine # None
        /\ lastCall.result = "ok")
       => /\ lastCall.disposeCalls = 1
          /\ disposeCount[lastCall.pre.engine] = 1
          /\ AllNull
  /\ (lastCall.op = "disconnect" /\ lastCall.pre.engine = None)
       => /\ lastCall.result = "ok"
          /\ lastCall.disposeCalls = 0
          /\ AllNull

C4_Witness ==
  /\ lastCall.op = "disconnect"
  /\ lastCall.at = "disconnected"
  /\ lastCall.pre.engine = None
  /\ \E e \in EngineIds : disposeCount[e] = 1
  /\ AllNull

\* C5: check_connection() returns a boolean and never raises: false when the
\* engine is null, false when the probe round trip raises, true only when
\* the probe succeeded; it leaves engine, session factory and URL unchanged.
C5_CheckConnection ==
  lastCall.op = "check_connection"
    => /\ lastCall.result \in {"true", "false"}
       /\ lastCall.pre.engine = None => lastCall.result = "false"
       /\ lastCall.env = "error" => lastCall.result = "false"
       /\ lastCall.result = "true"
            => lastCall.pre.engine # None /\ lastCall.env = "ok"
       /\ Fields = lastCall.pre

C5_Witness ==
  /\ lastCall.op = "check_connection"
  /\ lastCall.pre.engine # None
  /\ lastCall.env = "error"
  /\ lastCall.result = "false"
(***************************************************************************)
(* Properties of the repository.                                           *)
(***************************************************************************)
Found(op) == op.res.record # NoRecord

\* the two calls name no column in common
DisjointFields(f, g) ==
  /\ f.name = Unset \/ g.name = Unset
  /\ f.description = Unset \/ g.description = Unset

\* the row holds every value the call named
Carries(row, f) ==
  /\ f.name # Unset => row.name = f.name
  /\ f.description # Unset => row.description = f.description
  /\ f.organization_id # Unset => row.organization_id = f.organization_id

RECURSIVE SumTo(_, _)
SumTo(f, n) == IF n = 0 THEN 0 ELSE f[n] + SumTo(f, n - 1)

C7_CreateRoundTrip ==
  (lastOp.op = "create" /\ lastOp.res.ok)
    => LET got == GetById(store, lastOp.res.record.id) IN
         /\ lastOp.res.record.id \in Ids
         /\ got # NoRecord
         /\ got.id = lastOp.res.record.id
         /\ Carries(got, lastOp.fields)
         /\ Carries(lastOp.res.record, lastOp.fields)

C7_Witness ==
  /\ lastOp.op = "create" /\ lastOp.res.ok
  /\ lastOp.fields.description = "d" /\ lastOp.fields.organization_id = "org2"
  /\ lastOp.res.record.id = 2
  /\ GetById(store, 2).name = lastOp.fields.name

\* at most one true delete per id, and what the last delete returned
C8_DeleteState ==
  /\ \A i \in Ids :
       /\ trueDeletes[i] <= 1
       /\ trueDeletes[i] = 1 <=> (i <= nextId /\ store[i] = NoRecord)
  /\ lastOp.op = "delete"
       => /\ lastOp.res.bool <=> lastOp.before # NoRecord
          /\ GetById(store, lastOp.id) = NoRecord
          /\ lastOp.id \notin 1..nextId => ~lastOp.res.bool

\* what a step that is a delete call does to the store
C8_DeleteStep ==
  lastOp'.op = "delete" =>
    IF lastOp'.res.bool
    THEN /\ lastOp'.id \in Ids
         /\ store[lastOp'.id] # NoRecord
         /\ store' = [store EXCEPT ![lastOp'.id] = NoRecord]
    ELSE store' = store /\ trueDeletes' = trueDeletes

\* C8: delete(id) returns true exactly when a record with that id was there,
\* and removes it and nothing else; for one id at most one delete ever
\* returns true; a delete that returns false changes nothing; an id that
\* never existed gives false.
C8_DeleteOnce == []C8_DeleteState /\ [][C8_DeleteStep]_vars

C8_Witness ==
  /\ lastOp.op = "delete" /\ ~lastOp.res.bool
  /\ lastOp.id \in Ids /\ trueDeletes[lastOp.id] = 1

\* C9: the number count() returns, and the number of records in the store,
\* is the number of successful creates minus the number of deletes that
\* returned true; no filter applies.
C9_CountIsCreatesMinusDeletes ==
  LET expected == nextId - SumTo(trueDeletes, MaxIds) IN
    /\ Cardinality(Rows(store)) = expected
    /\ lastOp.op = "count" => lastOp.res.int = expected
    /\ lastOp.op = "update" => Cardinality(Rows(store)) = expected

C9_Witness ==
  /\ lastOp.op = "count" /\ lastOp.res.int = 1
  /\ nextId = 2 /\ SumTo(trueDeletes, MaxIds) = 1
  /\ \E i \in Rows(store) : store[i].description = Null

\* C10: get_by_organization on a record type without organization_id raises
\* the "not multi-tenant" error without executing a query or returning rows,
\* whatever the store holds; on a type with the field it returns exactly the
\* stored records whose organization_id is the one asked for.
C10_GetByOrganization ==
  lastOp.op = "get_by_organization"
    => IF HasAttr(model_class, "organization_id")
       THEN /\ lastOp.res.ok
            /\ \A i \in Rows(store) :
                 store[i] \in lastOp.res.rows
                   <=> store[i].organization_id = lastOp.fields.organization_id
            /\ \A row \in lastOp.res.rows : \E i \in Rows(store) : store[i] = row
       ELSE /\ ~lastOp.res.ok
            /\ lastOp.res.error = "not_multi_tenant"
            /\ ~lastOp.res.executed
            /\ lastOp.res.rows = {}

C10_Witness ==
  /\ lastOp.op = "get_by_organization"
  /\ lastOp.res.error = "not_multi_tenant"
  /\ Cardinality(Rows(store)) = 2

\* C11: get_by_id of an id that no record has returns null, not an error,
\* before and after any number of creates of records with other ids.
C11_MissIsNull ==
  (lastOp.op = "get_by_id" /\ \A i \in Ids : store[i].id # lastOp.id)
    => /\ lastOp.res.ok
       /\ lastOp.res.error = "none"
       /\ lastOp.res.record = NoRecord

C11_Witness ==
  /\ lastOp.op = "get_by_id" /\ lastOp.id = UnusedId
  /\ lastOp.res.record = NoRecord
  /\ Cardinality(Rows(store)) = MaxIds

(***************************************************************************)
(* Properties of get_all.                                                  *)
(***************************************************************************)
Latest(st) ==
  {b \in Rows(st) : \A a \in Rows(st) \ {b} : st[a].created_at < st[b].created_at}

\* C12: with a record A and a record B created later (B has the later
\* creation time), get_all(limit=1, order_by="created_at desc") returns a
\* list of exactly one record, and that record is B.
C12_NewestFirst ==
  (/\ lastOp.op = "get_all"
   /\ lastOp.res.list.limit = 1 /\ lastOp.res.list.offset = NoLimit
   /\ lastOp.res.list.order_by = "created_at desc"
   /\ Cardinality(Rows(store)) >= 2)
    => \A b \in Latest(store) : lastOp.res.list.page = <<store[b]>>

C12_Witness ==
  /\ lastOp.op = "get_all"
  /\ lastOp.res.list.limit = 1 /\ lastOp.res.list.offset = NoLimit
  /\ lastOp.res.list.order_by = "created_at desc"
  /\ \E a, b \in Rows(store) :
       /\ store[a].name = "A" /\ store[b].name = "B"
       /\ store[a].created_at < store[b].created_at
       /\ lastOp.res.list.page = <<store[b]>>

IsListing(seq, st) ==
  /\ Len(seq) = Cardinality(Rows(st))
  /\ \A i \in Rows(st) : \E k \in 1..Len(seq) : seq[k] = st[i]

C14_Pagination ==
  lastOp.op = "get_all" =>
    LET full == lastOp.res.list.ordered
        list == lastOp.res.list.page
        skip == IF lastOp.res.list.offset = NoLimit THEN 0 ELSE lastOp.res.list.offset
        rest == IF skip >= Len(full) THEN 0 ELSE Len(full) - skip
        size == IF lastOp.res.list.limit = NoLimit \/ lastOp.res.list.limit >= rest
                THEN rest ELSE lastOp.res.list.limit
    IN /\ Len(list) = size
       /\ \A k \in 1..size : list[k] = full[skip + k]
       /\ lastOp.res.list.limit # NoLimit => Len(list) <= lastOp.res.list.limit
       /\ skip >= Len(full) => list = <<>>

C14_Witness ==
  /\ lastOp.op = "get_all"
  /\ lastOp.res.list.offset = 1 /\ lastOp.res.list.limit = 1
  /\ Len(lastOp.res.list.ordered) = MaxIds
  /\ lastOp.res.list.page = <<lastOp.res.list.ordered[2]>>

(***************************************************************************)
(* Frame of update.                                                        *)
(***************************************************************************)
\* one step of update against the table before it
C15_UpdateStep ==
  lastOp'.op = "update" =>
    LET id == lastOp'.id
        f == lastOp'.fields
        hit == {i \in Ids : store[i] # NoRecord /\ store[i].id = id}
    IN IF hit = {}
       THEN /\ lastOp'.res.record = NoRecord
            /\ lastOp'.res.ok
            /\ store' = store
       ELSE \A i \in hit :
              /\ \A j \in Ids \ {i} : store'[j] = store[j]
              /\ store'[i].id = store[i].id
              /\ store'[i].created_at = store[i].created_at
              /\ store'[i].organization_id = store[i].organization_id
              /\ store'[i].name = IF f.name = Unset THEN store[i].name ELSE f.name
              /\ store'[i].description =
                   IF f.description = Unset THEN store[i].description
                   ELSE f.description
              /\ lastOp'.res.record = store'[i]

\* C15: update(id, fields) on an id no record has returns null and leaves
\* every record unchanged; on an id a record has it changes only the named
\* fields of that one record (its other fields, its id, and all other
\* records stay as they were) and returns the updated record.
C15_PartialUpdate == [][C15_UpdateStep]_vars

\* an update that renames one of two records and names no description
C15_Witness ==
  /\ lastOp.op = "update"
  /\ lastOp.fields.name # Unset /\ lastOp.fields.description = Unset
  /\ lastOp.before # NoRecord
  /\ lastOp.before.name # lastOp.fields.name
  /\ lastOp.before.description = "d"
  /\ lastOp.res.record = [lastOp.before EXCEPT !.name = lastOp.fields.name]
  /\ Cardinality(Rows(store)) = MaxIds

(***************************************************************************)
(* The repository and its session.                                         *)
(***************************************************************************)
RepositoryOps == {"create", "get_by_id", "get_all", "get_by_organization",
                  "update", "delete", "count"}

\* after any calls the session is open, neither committed nor rolled back
C16_SessionState ==
  /\ ~session.closed /\ ~session.committed /\ ~session.rolled_back
  /\ session.calls \cap {"commit", "rollback", "close"} = {}
  /\ lastOp.op \in RepositoryOps \cup {"none"}

\* no step rebinds the repository
C16_NoRebind ==
  /\ session'.bound = session.bound
  /\ model_class' = model_class

\* C16: no BaseRepository operation (create, get_by_id, get_all,
\* get_by_organization, update, delete, count) commits, rolls back or closes
\* the session the repository was constructed with, and none rebinds the
\* repository's session or record type: after any sequence of calls the
\* session is still open with its transaction undecided.
C16_BorrowsSession == []C16_SessionState /\ [][C16_NoRebind]_vars

\* a create that flushed a row, on the session the repository started with
C16_Witness ==
  /\ lastOp.op = "create" /\ lastOp.res.ok
  /\ session.calls = {"add", "flush", "refresh"}
  /\ session.bound = CallerSession
  /\ ~session.closed /\ ~session.committed
  /\ Cardinality(Rows(store)) = MaxIds

(***************************************************************************)
(* Properties of the API keys.                                             *)
(***************************************************************************)
MasterKey == get_service_api_key(environ, "master")

\* C17: for every service name s, in the key table or not, and the
\* configured master key m, verify_service_api_key(s, m) is true, and the
\* dependency of every service accepts the master key.
C17_MasterKeyAccepted ==
  /\ \A s \in ServiceNames : verify_service_api_key(environ, s, MasterKey)
  /\ (lastAuth.op = "dependency" /\ lastAuth.provided = MasterKey)
       => ~lastAuth.raised /\ lastAuth.value

\* a service with its own key, a master key set by the deployment
C17_Witness ==
  /\ lastAuth.op = "dependency"
  /\ lastAuth.service = "profiles"
  /\ environ["master"] = "k1" /\ environ["profiles"] = "k2"
  /\ lastAuth.provided = "k1"
  /\ lastAuth.value

DistinctKeys ==
  \A s, t \in KeyTable :
    s # t => get_service_api_key(environ, s) # get_service_api_key(environ, t)

\* C18 as stated: for service names s1 # s2 of the key table with distinct
\* configured keys, verify_service_api_key(s1, key_of(s2)) is false.
C18_Original ==
  DistinctKeys =>
    \A s1, s2 \in KeyTable :
      s1 # s2 =>
        ~verify_service_api_key(environ, s1, get_service_api_key(environ, s2))

\* C18: for service names s1 # s2 of the key table, where the key of s2 is
\* neither the key of s1 nor the master key, verify_service_api_key(s1,
\* key_of(s2)) is false and the dependency of s1 raises on it.  (The key of
\* the table's "master" entry is accepted for every service.)
C18_OtherServiceKeyRejected ==
  /\ \A s1, s2 \in KeyTable :
       (/\ s1 # s2
        /\ get_service_api_key(environ, s2) # get_service_api_key(environ, s1)
        /\ get_service_api_key(environ, s2) # MasterKey)
         => ~verify_service_api_key(environ, s1, get_service_api_key(environ, s2))
  /\ \A s2 \in KeyTable \ {lastAuth.service} :
       (/\ lastAuth.op = "dependency" /\ lastAuth.service \in KeyTable
        /\ lastAuth.provided = get_service_api_key(environ, s2)
        /\ lastAuth.provided # get_service_api_key(environ, lastAuth.service)
        /\ lastAuth.provided # MasterKey)
         => lastAuth.raised

C18_Witness ==
  /\ lastAuth.op = "dependency"
  /\ lastAuth.service = "profiles"
  /\ environ["profiles"] = "k1" /\ environ["referrals"] = "k2"
  /\ environ["master"] = Unset
  /\ lastAuth.provided = "k2"
  /\ lastAuth.raised

\* C19: the dependency of a service raises HTTP 401 exactly when
\* verify_service_api_key(service, provided key) is false and returns True
\* exactly when it is true; a call never both raises and returns.
C19_Dependency ==
  lastAuth.op = "dependency" =>
    LET verified == verify_service_api_key(environ, lastAuth.service,
                                           lastAuth.provided)
    IN /\ lastAuth.raised <=> ~verified
       /\ lastAuth.raised => lastAuth.status_code = 401 /\ ~lastAuth.value
       /\ lastAuth.value <=> verified
       /\ ~lastAuth.raised => lastAuth.status_code = 0

C19_Witness ==
  /\ lastAuth.op = "dependency"
  /\ lastAuth.service = "insurance"
  /\ environ["insurance"] = "k1"
  /\ lastAuth.provided = DefaultKey("insurance")
  /\ lastAuth.raised /\ lastAuth.status_code = 401

(***************************************************************************)
(* Properties of the bearer token extraction.                              *)
(***************************************************************************)
\* the pieces of a header from position 3 up to the next space or the end
AfterPrefix(auth) ==
  LET stops == {k \in 3..Len(auth) : auth[k] = " "}
      end == IF stops = {} THEN Len(auth)
             ELSE (CHOOSE k \in stops : \A j \in stops : k <= j) - 1
  IN SubSeq(auth, 3, end)

C21_InvalidToken ==
  lastVerify.op = "verify_token" =>
    LET t == lastVerify.token
        secret == IF jwt_environ.JWT_SECRET = Unset THEN "secret"
                  ELSE jwt_environ.JWT_SECRET
        algorithm == IF jwt_environ.JWT_ALGORITHM = Unset THEN "HS256"
                     ELSE jwt_environ.JWT_ALGORITHM
        good == /\ t.form = "jwt" /\ t.key = secret
                /\ t.alg = algorithm /\ ~t.expired
    IN /\ (t.form = "jwt" /\ t.key # secret) => lastVerify.raised
       /\ lastVerify.raised <=> ~good
       /\ lastVerify.raised =>
            /\ lastVerify.status_code = 403
            /\ lastVerify.detail = "Invalid token"
            /\ lastVerify.payload = "none"
       /\ ~lastVerify.raised => lastVerify.payload = t.payload

\* a well-formed, unexpired token of the right algorithm, signed with X while
\* the configured secret is Y
C21_Witness ==
  /\ lastVerify.op = "verify_token"
  /\ jwt_environ.JWT_SECRET = "Y" /\ jwt_environ.JWT_ALGORITHM = "HS256"
  /\ lastVerify.token.form = "jwt" /\ lastVerify.token.key = "X"
  /\ lastVerify.token.alg = "HS256" /\ ~lastVerify.token.expired
  /\ lastVerify.raised /\ lastVerify.status_code = 403

(***************************************************************************)
(* Properties of the S3 client.                                            *)
(***************************************************************************)
\* C22: for every S3Client operation and every error the backend call can
\* produce (missing object, access denied, any other exception) the
\* operation returns its failure value (False, None or the empty list) and
\* does not raise.
C22_BackendErrorsReturned ==
  (lastS3.op \in S3Ops /\ lastS3.backend_called /\ lastS3.backend # "ok")
    => /\ ~lastS3.raised
       /\ lastS3.error = "none"
       /\ lastS3.value =
            CASE lastS3.op \in {"get_object", "get_presigned_url"} -> "None"
              [] lastS3.op = "list_objects" -> "[]"
              [] OTHER -> "False"

C22_Witness ==
  /\ lastS3.op = "list_objects"
  /\ lastS3.backend_called
  /\ lastS3.backend = "Exception"
  /\ lastS3.value = "[]" /\ ~lastS3.raised

\* C23: configuration errors are raised: a shared configuration with no
\* bucket name raises ValueError at construction, and missing credentials
\* raise ValueError when the backend client is created, also when the first
\* storage operation triggers that creation.
C23_ConfigErrorsRaised ==
  /\ (lastS3.op = "__init__"
      /\ lastS3.config \in {"shared_without_bucket", "global_without_bucket"})
       => lastS3.raised /\ lastS3.error = "ValueError"
  /\ (/\ lastS3.op \in S3Ops \cup {"client"}
      /\ lastS3.create_attempted
      /\ lastS3.create = "NoCredentialsError")
       => lastS3.raised /\ lastS3.error = "ValueError"

\* C24: get_presigned_url with a method other than GET, PUT or DELETE in any
\* letter case returns None, and upload_file of a path that does not exist
\* returns False; neither makes a backend call nor creates a backend client.
C24_RejectedLocally ==
  (\/ lastS3.op = "upload_file" /\ ~lastS3.exists
   \/ lastS3.op = "get_presigned_url"
        /\ lastS3.method \notin {"GET", "get", "Put", "DELETE"})
    => /\ ~lastS3.raised
       /\ lastS3.value = IF lastS3.op = "upload_file" THEN "False" ELSE "None"
       /\ ~lastS3.backend_called
       /\ ~lastS3.create_attempted
       /\ s3_client = lastS3.client_before

\* an unsupported method on a client that has no backend client yet
C24_Witness ==
  /\ lastS3.op = "get_presigned_url"
  /\ lastS3.method = "patch"
  /\ lastS3.value = "None"
  /\ s3_client = NoClient /\ s3_made = 0
  /\ s3_config = "configured"

\* the client field and the count of clients made agree
C29_ClientState ==
  /\ s3_made <= 1
  /\ s3_client # NoClient <=> s3_made = 1
  /\ lastS3.op = "__init__" => s3_client = NoClient

\* a step on the same S3Client object
C29_ClientStep ==
  lastS3'.op # "__init__" =>
    /\ s3_client # NoClient =>
         /\ s3_client' = s3_client
         /\ s3_ids' = s3_ids
         /\ ~lastS3'.create_attempted
    /\ (lastS3'.create_attempted /\ lastS3'.create # "ok") => s3_client' = NoClient
    /\ (s3_client = NoClient /\ (lastS3'.op = "client" \/ lastS3'.backend_called))
         => lastS3'.create_attempted

\* C29: no backend client exists after construction; once a creation has
\* succeeded every later operation reuses that client and none is created
\* again; a creation that fails leaves the client unset and the next access
\* attempts creation again.
C29_LazyClient == []C29_ClientState /\ [][C29_ClientStep]_vars

\* an operation that reused the client an earlier call created
C29_Witness ==
  /\ lastS3.op \in S3Ops
  /\ lastS3.client_before # NoClient
  /\ s3_client = lastS3.client_before
  /\ ~lastS3.create_attempted /\ lastS3.backend_called
  /\ s3_made = 1

(***************************************************************************)
(* Properties of the global configuration holder.                          *)
(***************************************************************************)
Got(call) == call.op = "get_shared_config" /\ ~call.raised

\* what the holder and the last call say of each other
C25_HolderState ==
  /\ lastCfg.op = "set_global_config" => global_config = lastCfg.arg
  /\ lastCfg.op = "reset_global_config" => global_config = None
  /\ Got(lastCfg) => lastCfg.returned = global_config /\ global_config # None

\* one call against the holder and the instances before it
C25_HolderStep ==
  /\ \A i \in ConfigIds : cfg_fields[i] # Absent => cfg_fields'[i] = cfg_fields[i]
  /\ (Got(lastCfg) /\ Got(lastCfg')) => lastCfg'.returned = lastCfg.returned
  /\ (lastCfg.op = "set_global_config" /\ Got(lastCfg'))
       => lastCfg'.returned = lastCfg.arg
  /\ (lastCfg.op = "reset_global_config" /\ Got(lastCfg'))
       => /\ lastCfg'.created
          /\ cfg_fields[lastCfg'.returned] = Absent
          /\ lastCfg'.returned \notin cfg_installed
          /\ global_config' = lastCfg'.returned
  /\ global_config' # global_config
       => lastCfg'.op \in {"set_global_config", "reset_global_config",
                           "get_shared_config"}

\* C25: get_shared_config returns the identical instance on consecutive
\* calls with no set or reset in between; after set_global_config(c) it
\* returns c; after reset_global_config the next get_shared_config creates
\* and installs a new instance that was never installed before; and no call
\* changes a field of an existing instance.
C25_ReplacedWholesale == []C25_HolderState /\ [][C25_HolderStep]_vars

\* a default instance created after a reset that removed an installed one
C25_Witness ==
  /\ Got(lastCfg) /\ lastCfg.created
  /\ lastCfg.before = None
  /\ cfg_installed # {lastCfg.returned}
  /\ cfg_fields[lastCfg.returned] = "from-env"
  /\ \E c \in cfg_installed : cfg_fields[c] = "global-bucket"

(***************************************************************************)
(* Repeated connect.                                                       *)
(***************************************************************************)
\* an engine that was created, is not disposed and is no longer the manager's
Orphaned(e, eng, created, disposed) ==
  e <= created /\ e # eng /\ disposed[e] = 0

\* a connect that creates an engine installs it without disposing the one
\* it replaces, and an engine the manager let go of is never disposed
C26_ConnectStep ==
  /\ enginesCreated' # enginesCreated =>
       /\ engine' = enginesCreated'
       /\ session_factory' = enginesCreated'
       /\ disposeCount' = disposeCount
       /\ engine # None =>
            Orphaned(engine, engine', enginesCreated', disposeCount')
  /\ \A e \in EngineIds :
       Orphaned(e, engine, enginesCreated, disposeCount)
         => Orphaned(e, engine', enginesCreated', disposeCount')

\* C26: connect() on a connected manager replaces the engine and the session
\* factory with new ones without disposing the previous engine: after
\* connect; connect; disconnect exactly one of the two engines created has
\* been disposed, and the first one is leaked.
C26_SecondConnectLeaks ==
  /\ [][C26_ConnectStep]_vars
  /\ [](  (/\ lastCall.op = "disconnect" /\ lastCall.result = "ok"
           /\ lastCall.pre.engine = 2
           /\ disposeCount[1] = 0)
            => /\ disposeCount[2] = 1
               /\ engine = None
               /\ Orphaned(1, engine, enginesCreated, disposeCount))

\* connect; connect; disconnect
C26_Witness ==
  /\ lastCall.op = "disconnect" /\ lastCall.result = "ok"
  /\ lastCall.at = "connected"
  /\ lastCall.pre.engine = 2
  /\ enginesCreated = 2
  /\ disposeCount[1] = 0 /\ disposeCount[2] = 1
  /\ engine = None

(***************************************************************************)
(* What a rejection tells, and names outside the key table.                *)
(***************************************************************************)
\* C27: the 401 of a rejected key discloses no configured secret: under a
\* configuration that differs only in the value of the service's key and
\* rejects the same provided key, status and detail are identical.
C27_NoSecretInDetail ==
  (lastAuth.op = "dependency" /\ lastAuth.raised /\ lastAuth.service \in KeyTable)
    => \A v \in EnvValues \cup {Unset} :
         LET other == verify_api_key([environ EXCEPT ![lastAuth.service] = v],
                                     lastAuth.service, lastAuth.provided)
         IN  other.raised => /\ other.status_code = lastAuth.status_code
                             /\ other.detail = lastAuth.detail

\* C28: for a service name that is not in the key table a provided key is
\* accepted only if it equals the configured master key; the empty string
\* and every other value are rejected.
C28_UnknownServiceMasterOnly ==
  (lastAuth.op = "dependency" /\ lastAuth.service \notin KeyTable)
    => /\ verify_service_api_key(environ, lastAuth.service, lastAuth.provided)
            => lastAuth.provided = MasterKey
       /\ lastAuth.provided # MasterKey => lastAuth.raised

(***************************************************************************)
(* The lifespan context.                                                   *)
(***************************************************************************)
\* C30: the manager is connected before the body runs; whenever the startup
\* connect succeeded, disconnect() has been called by the time the context
\* has exited, on a normal shutdown and when the body exits with an
\* exception, so the engine is not left undisposed; a failing or missing
\* migration run never keeps startup from reaching the body.
C30_Lifespan ==
  /\ life_pc = "body" =>
       /\ lastLife.op = "startup" /\ lastLife.connect = "ok"
       /\ engine # None /\ engine = lastLife.engine
  /\ (lastLife.op = "shutdown" /\ lastLife.connect = "ok") =>
       /\ lastLife.disconnect_called
       /\ lastCall.op = "disconnect"
       /\ lastCall.result = "ok" =>
            /\ engine = None
            /\ disposeCount[lastLife.engine] = 1
  /\ (lastLife.op = "startup" /\ lastLife.connect = "ok") => life_pc = "body"
====
